---- MODULE Spec2Model ----
(***************************************************************************)
(* A model of batcave/cloudmgr.py: the Cloud session, the Image and        *)
(* Container handles, and their dispatch over the cloud type; and of       *)
(* builder() in Build/build.py, statement by statement (SpecBuild).        *)
(*                                                                         *)
(* The two collaborators (the docker client and the gcloud command         *)
(* runner) are not modelled beyond their interface: every call made to     *)
(* one of them is appended to the call trace of the operation that made    *)
(* it, and what they answer (a log stream, a JSON text, a container list)  *)
(* is an input of the operation.                                           *)
(***************************************************************************)
EXTENDS Integers, Sequences, FiniteSets, TLC

VARIABLES
    cloud,      \* the caller's Cloud object, or NoCloud
    images,     \* the Image handles the caller holds on that Cloud
    containers, \* the Container handles the caller holds on that Cloud
    nclient,    \* number of DockerClient objects constructed so far
    last,       \* the last operation invoked: its inputs, outcome and call trace
    pc,            \* Build/build.py: the statement of builder() to execute next
    build_args,    \* the arguments builder() was called with
    cwd,           \* the working directory of the process
    dirstack,      \* the directory stack of pushd and popd
    dircalls,      \* the calls made to pushd and popd, in order
    VERSION_FILE,  \* the content of batcave/__init__.py
    file_orig,     \* the content of batcave/__init__.py.orig
    ARTIFACTS_DIR, \* the content of Build/artifacts
    raised         \* the exception in flight in builder(), Ret for none

\* The state of the Cloud caller and the state of the build driver.
session == <<cloud, images, containers, nclient, last>>
build == <<pc, build_args, cwd, dirstack, dircalls, VERSION_FILE, file_orig, ARTIFACTS_DIR, raised>>

vars == <<session, build>>

----------------------------------------------------------------------------
(* Bounds *)

\* DockerClient objects that may be constructed in one behaviour.
MaxClients == 2
\* Handles of each class the caller keeps at one time.
MaxHandles == 1
\* Tokens in a log stream handed to manage (SpecManage).
MaxStream == 5
\* Tokens in a JSON text handed to get_tags (SpecTags).
MaxJson == 5

----------------------------------------------------------------------------
(* Values *)

\* _CLOUD_TYPES, in declaration order.
CLOUD_TYPES == <<"local", "gcloud", "dockerhub">>

CloudTypeSet == {CLOUD_TYPES[i] : i \in 1..Len(CLOUD_TYPES)}

\* Members of some other enumeration, handed to Cloud() as ctype.
ForeignTypes == {"aws"}

\* The auth argument: None, a str (a sequence of characters) or a tuple of str.
AuthNone == [t |-> "None", s |-> <<>>, tup |-> <<>>]
AuthStr(chars) == [t |-> "str", s |-> chars, tup |-> <<>>]
AuthTuple(elems) == [t |-> "tuple", s |-> <<>>, tup |-> elems]

\* What a caller passes as auth with each ctype.
Auths(ctype) ==
    CASE ctype = "gcloud" -> {AuthStr(<<"s", "a">>), AuthTuple(<<"sa">>)}
      [] ctype = "dockerhub" -> {AuthTuple(<<"user", "pw">>)}
      [] OTHER -> {AuthNone}

\* The value of Cloud._client: None, True or a DockerClient object (by identity).
ClientNone == [k |-> "None", id |-> 0]
ClientTrue == [k |-> "True", id |-> 0]
DockerClient(n) == [k |-> "DockerClient", id |-> n]

NoCloud == [type |-> "", auth |-> AuthNone, _client |-> ClientNone]

ImageNames == {"app", "app:v2"}
ContainerNames == {"c1"}

\* One call made to a collaborator: the callee, the DockerClient it was made on,
\* its positional arguments, the key file name of a Path argument (tokens) and
\* its keyword arguments.
Call(f, cid, args, keyfile, kw) ==
    [f |-> f, cid |-> cid, args |-> args, keyfile |-> keyfile, kw |-> kw]

\* Outcomes: a return, a CloudError, or another exception.
Ret == [k |-> "ret", e |-> "", ctype |-> "", action |-> "", err |-> <<>>, kinds |-> <<>>]
CloudError(e, ctype, action, err, kinds) ==
    [k |-> "CloudError", e |-> e, ctype |-> ctype, action |-> action, err |-> err, kinds |-> kinds]
Exc(e) == [k |-> "exc", e |-> e, ctype |-> "", action |-> "", err |-> <<>>, kinds |-> <<>>]

INVALID_OPERATION(ctype) == CloudError("INVALID_OPERATION", ctype, "", <<>>, <<>>)
INVALID_TYPE(ctype) == CloudError("INVALID_TYPE", ctype, "", <<>>, CLOUD_TYPES)
IMAGE_ERROR(action, err) == CloudError("IMAGE_ERROR", "", action, err, <<>>)

\* Cloud.client, the read accessor of _client used by Image and Container.
client(c) == c._client

----------------------------------------------------------------------------
(* Cloud *)

\* validatetype(ctype): the outcome.
validatetype(ctype) ==
    IF ctype \notin CloudTypeSet THEN INVALID_TYPE(ctype) ELSE Ret

\* self.auth[0]: None is not subscriptable, an empty str or tuple has no item 0,
\* a str gives its first character, a tuple its first element.
AuthItem0(auth) ==
    CASE auth.t = "None" -> [out |-> Exc("TypeError"), v |-> <<>>]
      [] auth.t = "str" ->
            IF auth.s = <<>> THEN [out |-> Exc("IndexError"), v |-> <<>>]
            ELSE [out |-> Ret, v |-> <<auth.s[1]>>]
      [] OTHER ->
            IF auth.tup = <<>> THEN [out |-> Exc("IndexError"), v |-> <<>>]
            ELSE [out |-> Ret, v |-> <<auth.tup[1]>>]

\* *self.auth: the positional arguments it unpacks to.
AuthUnpack(auth) ==
    CASE auth.t = "None" -> [out |-> Exc("TypeError"), v |-> <<>>]
      [] auth.t = "str" -> [out |-> Ret, v |-> auth.s]
      [] OTHER -> [out |-> Ret, v |-> auth.tup]

\* login constructing the client of a dockerhub Cloud without logging in on it.
login_no_credentials(c, n) ==
    IF c.type \in {"local", "dockerhub"} THEN
        [out |-> Ret, calls |-> <<Call("DockerClient", n + 1, <<>>, <<>>, {})>>,
         cloud |-> [c EXCEPT !._client = DockerClient(n + 1)], n |-> n + 1]
    ELSE IF c.type = "gcloud" THEN
        LET a == AuthItem0(c.auth) IN
        IF a.out.k # "ret" THEN [out |-> a.out, calls |-> <<>>, cloud |-> c, n |-> n]
        ELSE [out |-> Ret,
              calls |-> <<Call("gcloud", 0,
                               <<"auth", "activate-service-account", "--key-file", "~/.ssh/">>,
                               a.v \o <<".json">>, {"ignore_stderr"}),
                          Call("gcloud", 0, <<"auth", "configure-docker">>, <<>>,
                               {"ignore_stderr"})>>,
              cloud |-> [c EXCEPT !._client = ClientTrue], n |-> n]
    ELSE [out |-> INVALID_OPERATION(c.type), calls |-> <<>>, cloud |-> c, n |-> n]

\* Cloud.login(): the outcome, the calls made and the Cloud afterwards.
\* n is the number of DockerClient objects constructed before the call.
login(c, n) ==
    IF c.type \in {"local", "dockerhub"} THEN
        LET made == <<Call("DockerClient", n + 1, <<>>, <<>>, {})>>
            c1 == [c EXCEPT !._client = DockerClient(n + 1)] IN
        IF c.type = "dockerhub" THEN
            LET a == AuthUnpack(c.auth) IN
            IF a.out.k # "ret" THEN [out |-> a.out, calls |-> made, cloud |-> c1, n |-> n + 1]
            ELSE [out |-> Ret,
                  calls |-> made \o <<Call("client.login", n + 1, a.v, <<>>, {})>>,
                  cloud |-> c1, n |-> n + 1]
        ELSE [out |-> Ret, calls |-> made, cloud |-> c1, n |-> n + 1]
    ELSE IF c.type = "gcloud" THEN
        LET a == AuthItem0(c.auth) IN
        IF a.out.k # "ret" THEN [out |-> a.out, calls |-> <<>>, cloud |-> c, n |-> n]
        ELSE [out |-> Ret,
              calls |-> <<Call("gcloud", 0,
                               <<"auth", "activate-service-account", "--key-file", "~/.ssh/">>,
                               a.v \o <<".json">>, {"ignore_stderr"}),
                          Call("gcloud", 0, <<"auth", "configure-docker">>, <<>>,
                               {"ignore_stderr"})>>,
              cloud |-> [c EXCEPT !._client = ClientTrue], n |-> n]
    ELSE [out |-> INVALID_OPERATION(c.type), calls |-> <<>>, cloud |-> c, n |-> n]

\* Cloud.__init__ validating the type after the login.
Cloud_init_late(ctype, auth, dologin, n) ==
    LET self == [type |-> ctype, auth |-> auth, _client |-> ClientNone]
        l == IF dologin THEN login(self, n)
             ELSE [out |-> Ret, calls |-> <<>>, cloud |-> self, n |-> n]
        v == validatetype(self.type) IN
    IF l.out.k # "ret" THEN l
    ELSE IF v.k # "ret" THEN [out |-> v, calls |-> l.calls, cloud |-> l.cloud, n |-> l.n]
    ELSE l

\* Cloud.__init__ logging in whatever the login argument says.
Cloud_init_always(ctype, auth, dologin, n) ==
    LET self == [type |-> ctype, auth |-> auth, _client |-> ClientNone]
        v == validatetype(self.type) IN
    IF v.k # "ret" THEN [out |-> v, calls |-> <<>>, cloud |-> self, n |-> n]
    ELSE login(self, n)

\* Cloud.__init__(ctype, auth, login): the outcome, the calls made and the object.
Cloud_init(ctype, auth, dologin, n) ==
    LET self == [type |-> ctype, auth |-> auth, _client |-> ClientNone]
        v == validatetype(self.type) IN
    IF v.k # "ret" THEN [out |-> v, calls |-> <<>>, cloud |-> self, n |-> n]
    ELSE IF dologin THEN login(self, n)
    ELSE [out |-> Ret, calls |-> <<>>, cloud |-> self, n |-> n]

\* Cloud.__enter__(): the outcome, the calls made, the Cloud afterwards and the
\* object returned.
Cloud_enter(c) == [out |-> Ret, calls |-> <<>>, cloud |-> c, entered |-> c]

\* Cloud.__exit__ dropping the client on the way out.
Cloud_exit_teardown(c, exc_info) ==
    [out |-> Ret, calls |-> <<>>, cloud |-> [c EXCEPT !._client = ClientNone],
     swallow |-> FALSE]

\* Cloud.__exit__(*exc_info): the outcome, the calls made, the Cloud afterwards and
\* the value returned (True would swallow the exception in flight).
\* exc_info tells whether an exception is in flight.
Cloud_exit(c, exc_info) ==
    [out |-> Ret, calls |-> <<>>, cloud |-> c, swallow |-> FALSE]

\* exec with no dispatch on the type.
exec_any(c, args, kw, answer) ==
    [out |-> Ret, calls |-> <<Call("gcloud", 0, args, <<>>, kw)>>, val |-> answer]

\* Cloud.exec(*args, **kwargs): the outcome, the calls made and the value returned.
\* answer is what the gcloud runner returns.
exec(c, args, kw, answer) ==
    IF c.type = "gcloud" THEN
        [out |-> Ret, calls |-> <<Call("gcloud", 0, args, <<>>, kw)>>, val |-> answer]
    ELSE [out |-> INVALID_OPERATION(c.type), calls |-> <<>>, val |-> <<>>]

----------------------------------------------------------------------------
(* Log streams and JSON texts, as token sequences *)

\* A token of a log stream: a line break, a blank, or one 'key': 'value' item of
\* the dict literal written on the line.
NL == [t |-> "nl", key |-> "", val |-> <<>>]
WS == [t |-> "ws", key |-> "", val |-> <<>>]
KV(key, val) == [t |-> "kv", key |-> key, val |-> val]

StreamTokens ==
    {NL, WS, KV("status", <<"x">>), KV("error", <<"x">>), KV("error", <<"y", "z">>)}

RECURSIVE split(_)
\* str.split('\n')
split(s) ==
    IF \A i \in 1..Len(s) : s[i] # NL THEN <<s>>
    ELSE LET i == CHOOSE j \in 1..Len(s) : s[j] = NL /\ \A m \in 1..(j - 1) : s[m] # NL
         IN <<SubSeq(s, 1, i - 1)>> \o split(SubSeq(s, i + 1, Len(s)))

RECURSIVE strip(_)
\* str.strip()
strip(l) ==
    IF l = <<>> THEN l
    ELSE IF l[1] = WS THEN strip(Tail(l))
    ELSE IF l[Len(l)] = WS THEN strip(SubSeq(l, 1, Len(l) - 1))
    ELSE l

\* ast.literal_eval of a dict literal: the dict, as a function on its keys; a
\* key written twice keeps its last value. (Of a text with no literal in it,
\* literal_eval raises SyntaxError: manage tests for it before it gets here.)
literal_eval(l) ==
    LET items == SelectSeq(l, LAMBDA tok : tok.t = "kv")
        keys == {items[i].key : i \in 1..Len(items)}
    IN [k \in keys |->
            LET i == CHOOSE j \in 1..Len(items) :
                        items[j].key = k /\ \A m \in (j + 1)..Len(items) : items[m].key # k
            IN items[i].val]

\* The log-record contract: every non-empty line of the stream holds a record.
IsLogStream(s) ==
    LET lines == split(s) IN
    \A i \in 1..Len(lines) :
        lines[i] # <<>> => \E j \in 1..Len(lines[i]) : lines[i][j].t = "kv"

RECURSIVE join(_)
\* ''.join(strs)
join(strs) == IF strs = <<>> THEN <<>> ELSE Head(strs) \o join(Tail(strs))

\* A token of the JSON text of list-tags: the start of a record, or one tag of
\* the 'tags' list of the record begun last. A tag is a string, as code points.
REC == [rec |-> TRUE, tag |-> <<>>]
TAG(t) == [rec |-> FALSE, tag |-> t]

Tags == {<<1>>, <<2>>, <<1, 2>>}
JsonTokens == {REC} \cup {TAG(t) : t \in Tags}

\* A JSON array of records: empty, or beginning with a record.
IsJsonArray(text) == text = <<>> \/ text[1] = REC

RECURSIVE json_read(_)
\* json.loads of a JSON array of records: the list of records.
json_read(text) ==
    IF text = <<>> THEN <<>>
    ELSE LET rest == Tail(text)
             stop == IF \E j \in 1..Len(rest) : rest[j] = REC
                     THEN CHOOSE j \in 1..Len(rest) :
                              rest[j] = REC /\ \A m \in 1..(j - 1) : rest[m] # REC
                     ELSE Len(rest) + 1
             body == SubSeq(rest, 1, stop - 1)
         IN <<[tags |-> [i \in 1..Len(body) |-> body[i].tag]]>>
            \o json_read(SubSeq(rest, stop, Len(rest)))

RECURSIVE StrLess(_, _)
\* a < b on str: lexicographic on code points, a proper prefix first.
StrLess(a, b) ==
    IF b = <<>> THEN FALSE
    ELSE IF a = <<>> THEN TRUE
    ELSE IF a[1] # b[1] THEN a[1] < b[1]
    ELSE StrLess(Tail(a), Tail(b))

RECURSIVE insert(_, _)
insert(x, srt) ==
    IF srt = <<>> THEN <<x>>
    ELSE IF StrLess(x, Head(srt)) THEN <<x>> \o srt
    ELSE <<Head(srt)>> \o insert(x, Tail(srt))

RECURSIVE sorted(_)
\* sorted(list): ascending and stable.
sorted(l) == IF l = <<>> THEN <<>> ELSE insert(l[Len(l)], sorted(SubSeq(l, 1, Len(l) - 1)))

RECURSIVE flatten(_)
\* [t for i in records for t in i['tags']]
flatten(records) ==
    IF records = <<>> THEN <<>> ELSE Head(records).tags \o flatten(Tail(records))

----------------------------------------------------------------------------
(* Image *)

\* An Image object: name, _docker_client (by identity) and _ref (the name the
\* native reference was looked up by, "" for None).
NoHandle == [name |-> "", dc |-> 0, ref |-> ""]

\* Image.__init__(cloud, name): the outcome, the calls made and the object.
Image_init(c, name, n) ==
    LET shared == client(c).k = "DockerClient"
        dc == IF shared THEN client(c).id ELSE n + 1
        made == IF shared THEN <<>> ELSE <<Call("DockerClient", n + 1, <<>>, <<>>, {})>>
        n1 == IF shared THEN n ELSE n + 1
    IN IF c.type \in {"local", "dockerhub"} THEN
           IF client(c).k # "DockerClient"
           THEN [out |-> Exc("AttributeError"), calls |-> made, h |-> NoHandle, n |-> n1]
           ELSE [out |-> Ret,
                 calls |-> made \o <<Call("images.get", client(c).id, <<name>>, <<>>, {})>>,
                 h |-> [name |-> name, dc |-> dc, ref |-> name], n |-> n1]
       ELSE IF c.type = "gcloud" THEN
           [out |-> Ret, calls |-> made, h |-> [name |-> name, dc |-> dc, ref |-> ""], n |-> n1]
       ELSE [out |-> INVALID_OPERATION(c.type), calls |-> made, h |-> NoHandle, n |-> n1]

\* manage reporting the first error record only.
manage_first(c, self, action, stream) ==
    IF c.type \in {"local", "dockerhub", "gcloud"} THEN
        LET lines == SelectSeq(split(stream), LAMBDA l : l # <<>>)
            docker_log == [i \in 1..Len(lines) |-> literal_eval(strip(lines[i]))]
            witherr == SelectSeq(docker_log, LAMBDA l : "error" \in DOMAIN l)
            made == <<Call("images." \o action, self.dc, <<self.name>>, <<>>, {})>>
        IN IF \E i \in 1..Len(lines) : strip(lines[i]) = <<>>
           THEN [self |-> self, out |-> Exc("SyntaxError"), calls |-> made, log |-> <<>>]
           ELSE IF witherr # <<>>
           THEN [self |-> self, out |-> IMAGE_ERROR(action, witherr[1]["error"]),
                 calls |-> made, log |-> <<>>]
           ELSE [self |-> self, out |-> Ret, calls |-> made, log |-> docker_log]
    ELSE [self |-> self, out |-> INVALID_OPERATION(c.type), calls |-> <<>>, log |-> <<>>]

\* manage with gcloud left out of the case.
manage_native(c, self, action, stream) ==
    IF c.type \in {"local", "dockerhub"} THEN
        LET lines == SelectSeq(split(stream), LAMBDA l : l # <<>>)
            docker_log == [i \in 1..Len(lines) |-> literal_eval(strip(lines[i]))]
            witherr == SelectSeq(docker_log, LAMBDA l : "error" \in DOMAIN l)
            errors == [i \in 1..Len(witherr) |-> witherr[i]["error"]]
            made == <<Call("images." \o action, self.dc, <<self.name>>, <<>>, {})>>
        IN IF \E i \in 1..Len(lines) : strip(lines[i]) = <<>>
           THEN [self |-> self, out |-> Exc("SyntaxError"), calls |-> made, log |-> <<>>]
           ELSE IF errors # <<>>
           THEN [self |-> self, out |-> IMAGE_ERROR(action, join(errors)), calls |-> made,
                 log |-> <<>>]
           ELSE [self |-> self, out |-> Ret, calls |-> made, log |-> docker_log]
    ELSE [self |-> self, out |-> INVALID_OPERATION(c.type), calls |-> <<>>, log |-> <<>>]

\* manage raising at the first error record, before the lines after it are read.
manage_eager(c, self, action, stream) ==
    IF c.type \in {"local", "dockerhub", "gcloud"} THEN
        LET lines == SelectSeq(split(stream), LAMBDA l : l # <<>>)
            made == <<Call("images." \o action, self.dc, <<self.name>>, <<>>, {})>>
            blank(i) == strip(lines[i]) = <<>>
            error(i) == ~blank(i) /\ "error" \in DOMAIN literal_eval(strip(lines[i]))
            stops == {i \in 1..Len(lines) : blank(i) \/ error(i)}
        IN IF stops = {}
           THEN [self |-> self, out |-> Ret, calls |-> made,
                 log |-> [i \in 1..Len(lines) |-> literal_eval(strip(lines[i]))]]
           ELSE LET i == CHOOSE j \in stops : \A k \in stops : j <= k IN
                IF blank(i)
                THEN [self |-> self, out |-> Exc("SyntaxError"), calls |-> made, log |-> <<>>]
                ELSE [self |-> self,
                      out |-> IMAGE_ERROR(action, literal_eval(strip(lines[i]))["error"]),
                      calls |-> made, log |-> <<>>]
    ELSE [self |-> self, out |-> INVALID_OPERATION(c.type), calls |-> <<>>, log |-> <<>>]

\* Image.manage(action): the Image afterwards, the outcome, the calls made and
\* the log returned.
\* stream is what the docker client's image action returns. The action is called
\* once, every non-empty line of what it returns is evaluated (a line of blanks
\* raises SyntaxError there), and only then are the error records looked for.
manage(c, self, action, stream) ==
    IF c.type \in {"local", "dockerhub", "gcloud"} THEN
        LET lines == SelectSeq(split(stream), LAMBDA l : l # <<>>)
            docker_log == [i \in 1..Len(lines) |-> literal_eval(strip(lines[i]))]
            witherr == SelectSeq(docker_log, LAMBDA l : "error" \in DOMAIN l)
            errors == [i \in 1..Len(witherr) |-> witherr[i]["error"]]
            made == <<Call("images." \o action, self.dc, <<self.name>>, <<>>, {})>>
        IN IF \E i \in 1..Len(lines) : strip(lines[i]) = <<>>
           THEN [self |-> self, out |-> Exc("SyntaxError"), calls |-> made, log |-> <<>>]
           ELSE IF errors # <<>>
           THEN [self |-> self, out |-> IMAGE_ERROR(action, join(errors)), calls |-> made,
                 log |-> <<>>]
           ELSE [self |-> self, out |-> Ret, calls |-> made, log |-> docker_log]
    ELSE [self |-> self, out |-> INVALID_OPERATION(c.type), calls |-> <<>>, log |-> <<>>]

\* Image.pull()
pull(c, self, stream) == manage(c, self, "pull", stream)

\* Image.push()
push(c, self, stream) == manage(c, self, "push", stream)

\* get_tags returning the flattened tags as gcloud listed them.
get_tags_unsorted(c, self, image_filter, reftags, text) ==
    IF c.type \in {"local", "dockerhub"} THEN
        [self |-> self, out |-> Ret, calls |-> <<>>, tags |-> reftags]
    ELSE IF c.type = "gcloud" THEN
        LET args == <<"--format=json">>
                    \o (IF image_filter # "" THEN <<"--filter=" \o image_filter>> ELSE <<>>)
            e == exec(c, <<"container", "images", "list-tags", self.name>> \o args,
                      {"show_stdout=False", "flatten_output=True"}, text)
        IN [self |-> self, out |-> e.out, calls |-> e.calls,
            tags |-> IF e.out.k = "ret" THEN flatten(json_read(e.val)) ELSE <<>>]
    ELSE [self |-> self, out |-> INVALID_OPERATION(c.type), calls |-> <<>>, tags |-> <<>>]

\* Image.get_tags(image_filter): the outcome, the calls made and the tags returned.
\* reftags is the tags field of the native reference, text what gcloud prints.
get_tags(c, self, image_filter, reftags, text) ==
    IF c.type \in {"local", "dockerhub"} THEN
        [self |-> self, out |-> Ret, calls |-> <<>>, tags |-> reftags]
    ELSE IF c.type = "gcloud" THEN
        LET args == <<"--format=json">>
                    \o (IF image_filter # "" THEN <<"--filter=" \o image_filter>> ELSE <<>>)
            e == exec(c, <<"container", "images", "list-tags", self.name>> \o args,
                      {"show_stdout=False", "flatten_output=True"}, text)
        IN [self |-> self, out |-> e.out, calls |-> e.calls,
            tags |-> IF e.out.k = "ret" THEN sorted(flatten(json_read(e.val))) ELSE <<>>]
    ELSE [self |-> self, out |-> INVALID_OPERATION(c.type), calls |-> <<>>, tags |-> <<>>]

\* run starting the container whatever the pull raised.
run_unchecked(c, self, detach, update, kwargs, stream, started) ==
    LET p == IF update THEN pull(c, self, stream)
             ELSE [self |-> self, out |-> Ret, calls |-> <<>>, log |-> <<>>]
    IN IF c.type \in {"local", "dockerhub"} THEN
           IF client(c).k # "DockerClient"
           THEN [self |-> self, out |-> Exc("AttributeError"), calls |-> p.calls, ctr |-> ""]
           ELSE [self |-> self, out |-> Ret,
                 calls |-> p.calls \o
                     <<Call("containers.run", client(c).id, <<self.name>>, <<>>,
                            {IF detach THEN "detach=True" ELSE "detach=False"} \cup kwargs)>>,
                 ctr |-> started]
       ELSE [self |-> self, out |-> INVALID_OPERATION(c.type), calls |-> p.calls, ctr |-> ""]

\* Image.run(detach, update, **kwargs): the Image afterwards, the outcome, the
\* calls made and the container reference returned ("" for none).
\* stream is the log of the pull made when update is set, started what the
\* docker client's containers.run returns.
run(c, self, detach, update, kwargs, stream, started) ==
    LET p == IF update THEN pull(c, self, stream)
             ELSE [self |-> self, out |-> Ret, calls |-> <<>>, log |-> <<>>]
    IN IF p.out.k # "ret" THEN [self |-> self, out |-> p.out, calls |-> p.calls, ctr |-> ""]
       ELSE IF c.type \in {"local", "dockerhub"} THEN
           IF client(c).k # "DockerClient"
           THEN [self |-> self, out |-> Exc("AttributeError"), calls |-> p.calls, ctr |-> ""]
           ELSE [self |-> self, out |-> Ret,
                 calls |-> p.calls \o
                     <<Call("containers.run", client(c).id, <<self.name>>, <<>>,
                            {IF detach THEN "detach=True" ELSE "detach=False"} \cup kwargs)>>,
                 ctr |-> started]
       ELSE [self |-> self, out |-> INVALID_OPERATION(c.type), calls |-> p.calls, ctr |-> ""]

\* tag_native pushing the Image it was called on, not the new one.
tag_native_pushes_self(c, self, new_tag, pulled, pushed, n) ==
    LET p == pull(c, self, pulled) IN
    IF p.out.k # "ret"
    THEN [self |-> self, out |-> p.out, calls |-> p.calls, h |-> NoHandle, n |-> n]
    ELSE
    LET applied == p.calls \o <<Call("ref.tag", 0, <<self.ref, new_tag>>, <<>>, {})>>
        new_ref == Image_init(c, new_tag, n) IN
    IF new_ref.out.k # "ret"
    THEN [self |-> self, out |-> new_ref.out, calls |-> applied \o new_ref.calls, h |-> NoHandle,
          n |-> new_ref.n]
    ELSE
    LET q == push(c, self, pushed) IN
    [self |-> self, out |-> q.out, calls |-> applied \o new_ref.calls \o q.calls,
     h |-> IF q.out.k = "ret" THEN new_ref.h ELSE NoHandle, n |-> new_ref.n]

\* Image.tag(new_tag), the local/dockerhub case: pull, tag the reference,
\* construct the new Image, push it.
tag_native(c, self, new_tag, pulled, pushed, n) ==
    LET p == pull(c, self, pulled) IN
    IF p.out.k # "ret"
    THEN [self |-> self, out |-> p.out, calls |-> p.calls, h |-> NoHandle, n |-> n]
    ELSE
    LET applied == p.calls \o <<Call("ref.tag", 0, <<self.ref, new_tag>>, <<>>, {})>>
        new_ref == Image_init(c, new_tag, n) IN
    IF new_ref.out.k # "ret"
    THEN [self |-> self, out |-> new_ref.out, calls |-> applied \o new_ref.calls, h |-> NoHandle,
          n |-> new_ref.n]
    ELSE
    LET q == push(c, new_ref.h, pushed) IN
    [self |-> self, out |-> q.out, calls |-> applied \o new_ref.calls \o q.calls,
     h |-> IF q.out.k = "ret" THEN new_ref.h ELSE NoHandle, n |-> new_ref.n]

\* Image.tag(new_tag), the gcloud case: add-tag through exec, construct the new Image.
tag_gcloud(c, self, new_tag, n) ==
    LET e == exec(c, <<"container", "images", "add-tag", self.name, new_tag>>,
                  {"ignore_stderr"}, <<>>)
        new_ref == Image_init(c, new_tag, n) IN
    IF e.out.k # "ret"
    THEN [self |-> self, out |-> e.out, calls |-> e.calls, h |-> NoHandle, n |-> n]
    ELSE [self |-> self, out |-> new_ref.out, calls |-> e.calls \o new_ref.calls,
          h |-> new_ref.h, n |-> new_ref.n]

\* tag renaming the Image it was called on and returning that same object.
tag_renames(c, self, new_tag, pulled, pushed, n) ==
    LET r == IF c.type \in {"local", "dockerhub"}
             THEN tag_native(c, self, new_tag, pulled, pushed, n)
             ELSE IF c.type = "gcloud" THEN tag_gcloud(c, self, new_tag, n)
             ELSE [self |-> self, out |-> INVALID_OPERATION(c.type), calls |-> <<>>,
                   h |-> NoHandle, n |-> n]
        renamed == [self EXCEPT !.name = new_tag]
    IN IF r.out.k = "ret" THEN [r EXCEPT !.self = renamed, !.h = renamed] ELSE r

\* tag with gcloud listed in the first case.
tag_gcloud_native(c, self, new_tag, pulled, pushed, n) ==
    IF c.type \in {"local", "dockerhub", "gcloud"}
    THEN tag_native(c, self, new_tag, pulled, pushed, n)
    ELSE [self |-> self, out |-> INVALID_OPERATION(c.type), calls |-> <<>>, h |-> NoHandle, n |-> n]

\* Image.tag(new_tag): the outcome, the calls made and the object returned.
\* pulled and pushed are the logs of the pull and of the push.
tag(c, self, new_tag, pulled, pushed, n) ==
    IF c.type \in {"local", "dockerhub"} THEN tag_native(c, self, new_tag, pulled, pushed, n)
    ELSE IF c.type = "gcloud" THEN tag_gcloud(c, self, new_tag, n)
    ELSE [self |-> self, out |-> INVALID_OPERATION(c.type), calls |-> <<>>, h |-> NoHandle, n |-> n]

----------------------------------------------------------------------------
(* Container *)

\* A Container object: name and _ref.
NoContainer == [name |-> "", ref |-> ""]

\* Container.__init__(cloud, name): the outcome, the calls made and the object.
Container_init(c, name) ==
    IF c.type \in {"local", "dockerhub"} THEN
        IF client(c).k # "DockerClient"
        THEN [out |-> Exc("AttributeError"), calls |-> <<>>, h |-> NoContainer]
        ELSE [out |-> Ret,
              calls |-> <<Call("containers.get", client(c).id, <<name>>, <<>>, {})>>,
              h |-> [name |-> name, ref |-> name]]
    ELSE [out |-> INVALID_OPERATION(c.type), calls |-> <<>>, h |-> NoContainer]

\* Container.stop(): the outcome and the calls made.
stop(c, self) ==
    IF c.type \in {"local", "dockerhub"} THEN
        [out |-> Ret, calls |-> <<Call("ref.stop", 0, <<self.ref>>, <<>>, {})>>]
    ELSE [out |-> INVALID_OPERATION(c.type), calls |-> <<>>]

RECURSIVE wrap(_, _)
\* [Container(self, c.name) for c in listed]: stops at the first that raises.
wrap(c, listed) ==
    IF listed = <<>> THEN [out |-> Ret, calls |-> <<>>, hs |-> <<>>]
    ELSE LET one == Container_init(c, Head(listed)) IN
         IF one.out.k # "ret" THEN [out |-> one.out, calls |-> one.calls, hs |-> <<>>]
         ELSE LET more == wrap(c, Tail(listed)) IN
              [out |-> more.out, calls |-> one.calls \o more.calls,
               hs |-> IF more.out.k = "ret" THEN <<one.h>> \o more.hs ELSE <<>>]

\* get_containers with gcloud listed in the first case.
get_containers_gcloud(c, filters, listed) ==
    IF c.type \in {"local", "dockerhub", "gcloud"} THEN
        IF c._client.k = "None"
        THEN [out |-> Exc("AttributeError"), calls |-> <<>>, hs |-> <<>>]
        ELSE LET w == wrap(c, listed) IN
             [out |-> w.out,
              calls |-> <<Call("containers.list", c._client.id, <<>>, <<>>, {filters})>>
                        \o w.calls,
              hs |-> w.hs]
    ELSE [out |-> INVALID_OPERATION(c.type), calls |-> <<>>, hs |-> <<>>]

\* Cloud.get_containers(filters): the outcome, the calls made and the list returned.
\* listed is what the docker client's containers.list returns (names).
get_containers(c, filters, listed) ==
    IF c.type \in {"local", "dockerhub"} THEN
        IF c._client.k # "DockerClient"
        THEN [out |-> Exc("AttributeError"), calls |-> <<>>, hs |-> <<>>]
        ELSE LET w == wrap(c, listed) IN
             [out |-> w.out,
              calls |-> <<Call("containers.list", c._client.id, <<>>, <<>>, {filters})>>
                        \o w.calls,
              hs |-> w.hs]
    ELSE [out |-> INVALID_OPERATION(c.type), calls |-> <<>>, hs |-> <<>>]

\* Cloud.get_container(name)
get_container(c, name) == Container_init(c, name)

\* Cloud.get_image(tag)
get_image(c, name, n) == Image_init(c, name, n)

\* Image.containers
Image_containers(c, self, listed) ==
    [self |-> self] @@ get_containers(c, "ancestor=" \o self.name, listed)

----------------------------------------------------------------------------
(* The caller: one action per operation of the interface *)

\* The record kept of an operation; Done fills in what an operation does not set.
NoOp ==
    [op |-> "", ctype |-> "", self |-> "", args |-> <<>>, flags |-> {},
     stream |-> <<>>, stream2 |-> <<>>, text |-> <<>>, listed |-> <<>>,
     out |-> Ret, calls |-> <<>>, h |-> NoHandle, log |-> <<>>, tags |-> <<>>,
     val |-> <<>>, hs |-> <<>>, entered |-> NoCloud, swallow |-> FALSE,
     obj |-> NoHandle, after |-> NoHandle, answer |-> "", ctr |-> ""]

Done(fields) == fields @@ NoOp

\* What the collaborators answer in Spec.
MainStreams == {<<KV("status", <<"x">>), NL>>, <<KV("error", <<"x">>)>>}
MainTexts == {<<REC, TAG(<<2>>), TAG(<<1>>)>>}
MainListed == {<<>>, <<"c1">>}
MainRefTags == {<< <<2>>, <<1>> >>}
MainExecArgs == {<<"config", "list">>}
MainKwargs == {{}, {"ignore_stderr"}}

\* The caller keeps a handle it is given while it has room for it.
Keep(held, h) == IF Cardinality(held \cup {h}) <= MaxHandles THEN held \cup {h} ELSE held

\* The caller's handles after an operation on one of them: the object the
\* operation was invoked on is the same object afterwards, as the operation left it.
Mutated(held, self, after) == (held \ {self}) \cup {after}

\* The content of a file or a directory that does not exist.
Missing == "missing"

\* The directory build.py is run from (PROJECT_ROOT is its parent).
BUILD_DIR == "Build"

\* A process in which builder() has not been called.
NoBuild ==
    /\ pc = "idle"
    /\ build_args = [given |-> FALSE, build_num |-> "", release |-> <<>>]
    /\ cwd = BUILD_DIR
    /\ dirstack = <<>>
    /\ dircalls = <<>>
    /\ VERSION_FILE = "orig"
    /\ file_orig = Missing
    /\ ARTIFACTS_DIR = Missing
    /\ raised = Ret

Init ==
    /\ cloud = NoCloud
    /\ images = {}
    /\ containers = {}
    /\ nclient = 0
    /\ last = NoOp
    /\ NoBuild

\* Cloud(ctype, auth, login): a Cloud that was constructed replaces the caller's.
NewCloud(ctype, auth, dologin) ==
    LET r == Cloud_init(ctype, auth, dologin, nclient) IN
    /\ r.n <= MaxClients
    /\ IF r.out.k = "ret"
       THEN cloud' = r.cloud /\ images' = {} /\ containers' = {}
       ELSE UNCHANGED <<cloud, images, containers>>
    /\ nclient' = r.n
    /\ last' = Done([op |-> "Cloud", ctype |-> ctype, out |-> r.out, calls |-> r.calls,
                     flags |-> IF dologin THEN {"login"} ELSE {}])
    /\ UNCHANGED build

CallLogin ==
    LET r == login(cloud, nclient) IN
    /\ cloud # NoCloud
    /\ r.n <= MaxClients
    /\ cloud' = r.cloud
    /\ nclient' = r.n
    /\ last' = Done([op |-> "login", ctype |-> cloud.type, out |-> r.out,
                     calls |-> r.calls])
    /\ UNCHANGED <<images, containers>>
    /\ UNCHANGED build

\* with cloud: on the way in.
CallEnter ==
    LET r == Cloud_enter(cloud) IN
    /\ cloud # NoCloud
    /\ cloud' = r.cloud
    /\ last' = Done([op |-> "__enter__", ctype |-> cloud.type, out |-> r.out,
                     calls |-> r.calls, entered |-> r.entered])
    /\ UNCHANGED <<images, containers, nclient>>
    /\ UNCHANGED build

\* with cloud: on the way out, with or without an exception in flight.
CallExit(exc_info) ==
    LET r == Cloud_exit(cloud, exc_info) IN
    /\ cloud # NoCloud
    /\ cloud' = r.cloud
    /\ last' = Done([op |-> "__exit__", ctype |-> cloud.type,
                     flags |-> IF exc_info THEN {"exc_info"} ELSE {},
                     out |-> r.out, calls |-> r.calls, swallow |-> r.swallow])
    /\ UNCHANGED <<images, containers, nclient>>
    /\ UNCHANGED build

CallExec(args, kw, answer) ==
    LET r == exec(cloud, args, kw, answer) IN
    /\ cloud # NoCloud
    /\ last' = Done([op |-> "exec", ctype |-> cloud.type, args |-> args, flags |-> kw,
                     text |-> answer, out |-> r.out, calls |-> r.calls, val |-> r.val])
    /\ UNCHANGED <<cloud, images, containers, nclient>>
    /\ UNCHANGED build

CallGetImage(name) ==
    LET r == get_image(cloud, name, nclient) IN
    /\ cloud # NoCloud
    /\ r.n <= MaxClients
    /\ images' = IF r.out.k = "ret" THEN Keep(images, r.h) ELSE images
    /\ nclient' = r.n
    /\ last' = Done([op |-> "get_image", ctype |-> cloud.type, args |-> <<name>>,
                     out |-> r.out, calls |-> r.calls, h |-> r.h])
    /\ UNCHANGED <<cloud, containers>>
    /\ UNCHANGED build

CallGetContainer(name) ==
    LET r == get_container(cloud, name) IN
    /\ cloud # NoCloud
    /\ containers' = IF r.out.k = "ret" THEN Keep(containers, r.h) ELSE containers
    /\ last' = Done([op |-> "get_container", ctype |-> cloud.type, args |-> <<name>>,
                     out |-> r.out, calls |-> r.calls])
    /\ UNCHANGED <<cloud, images, nclient>>
    /\ UNCHANGED build

CallGetContainers(listed) ==
    LET r == get_containers(cloud, "None", listed) IN
    /\ cloud # NoCloud
    /\ last' = Done([op |-> "get_containers", ctype |-> cloud.type, listed |-> listed,
                     out |-> r.out, calls |-> r.calls, hs |-> r.hs])
    /\ UNCHANGED <<cloud, images, containers, nclient>>
    /\ UNCHANGED build

CallImageContainers(self, listed) ==
    LET r == Image_containers(cloud, self, listed) IN
    /\ self \in images
    /\ last' = Done([op |-> "Image.containers", ctype |-> cloud.type, self |-> self.name,
                     obj |-> self, after |-> r.self,
                     listed |-> listed, out |-> r.out, calls |-> r.calls, hs |-> r.hs])
    /\ images' = Mutated(images, self, r.self)
    /\ UNCHANGED <<cloud, containers, nclient>>
    /\ UNCHANGED build

CallGetTags(self, image_filter, reftags, text) ==
    LET r == get_tags(cloud, self, image_filter, reftags, text) IN
    /\ self \in images
    /\ last' = Done([op |-> "get_tags", ctype |-> cloud.type, self |-> self.name,
                     obj |-> self, after |-> r.self,
                     args |-> <<image_filter>>, text |-> text, out |-> r.out,
                     calls |-> r.calls, tags |-> r.tags])
    /\ images' = Mutated(images, self, r.self)
    /\ UNCHANGED <<cloud, containers, nclient>>
    /\ UNCHANGED build

CallManage(self, action, stream) ==
    LET r == manage(cloud, self, action, stream) IN
    /\ self \in images
    /\ last' = Done([op |-> "manage", ctype |-> cloud.type, self |-> self.name,
                     obj |-> self, after |-> r.self,
                     args |-> <<action>>, stream |-> stream, out |-> r.out,
                     calls |-> r.calls, log |-> r.log])
    /\ images' = Mutated(images, self, r.self)
    /\ UNCHANGED <<cloud, containers, nclient>>
    /\ UNCHANGED build

CallPull(self, stream) ==
    LET r == pull(cloud, self, stream) IN
    /\ self \in images
    /\ last' = Done([op |-> "pull", ctype |-> cloud.type, self |-> self.name,
                     obj |-> self, after |-> r.self,
                     stream |-> stream, out |-> r.out, calls |-> r.calls, log |-> r.log])
    /\ images' = Mutated(images, self, r.self)
    /\ UNCHANGED <<cloud, containers, nclient>>
    /\ UNCHANGED build

CallPush(self, stream) ==
    LET r == push(cloud, self, stream) IN
    /\ self \in images
    /\ last' = Done([op |-> "push", ctype |-> cloud.type, self |-> self.name,
                     obj |-> self, after |-> r.self,
                     stream |-> stream, out |-> r.out, calls |-> r.calls, log |-> r.log])
    /\ images' = Mutated(images, self, r.self)
    /\ UNCHANGED <<cloud, containers, nclient>>
    /\ UNCHANGED build

CallRun(self, detach, update, kwargs, stream, started) ==
    LET r == run(cloud, self, detach, update, kwargs, stream, started) IN
    /\ self \in images
    /\ last' = Done([op |-> "run", ctype |-> cloud.type, self |-> self.name,
                     obj |-> self, after |-> r.self,
                     flags |-> (IF detach THEN {"detach"} ELSE {})
                               \cup (IF update THEN {"update"} ELSE {}) \cup kwargs,
                     stream |-> stream, answer |-> started, out |-> r.out, calls |-> r.calls,
                     ctr |-> r.ctr])
    /\ images' = Mutated(images, self, r.self)
    /\ UNCHANGED <<cloud, containers, nclient>>
    /\ UNCHANGED build

CallTag(self, new_tag, pulled, pushed) ==
    LET r == tag(cloud, self, new_tag, pulled, pushed, nclient) IN
    /\ self \in images
    /\ r.n <= MaxClients
    /\ images' = IF r.out.k = "ret" THEN Keep(Mutated(images, self, r.self), r.h)
                 ELSE Mutated(images, self, r.self)
    /\ nclient' = r.n
    /\ last' = Done([op |-> "tag", ctype |-> cloud.type, self |-> self.name,
                     obj |-> self, after |-> r.self,
                     args |-> <<new_tag>>, stream |-> pulled, stream2 |-> pushed,
                     out |-> r.out, calls |-> r.calls, h |-> r.h])
    /\ UNCHANGED <<cloud, containers>>
    /\ UNCHANGED build

CallStop(self) ==
    LET r == stop(cloud, self) IN
    /\ self \in containers
    /\ last' = Done([op |-> "stop", ctype |-> cloud.type, self |-> self.name,
                     out |-> r.out, calls |-> r.calls])
    /\ UNCHANGED <<cloud, images, containers, nclient>>
    /\ UNCHANGED build

Next ==
    \/ \E ctype \in CloudTypeSet \cup ForeignTypes, dologin \in BOOLEAN :
           \E auth \in Auths(ctype) : NewCloud(ctype, auth, dologin)
    \/ CallLogin
    \/ CallEnter
    \/ \E exc_info \in BOOLEAN : CallExit(exc_info)
    \/ \E args \in MainExecArgs, kw \in MainKwargs, answer \in MainTexts :
           CallExec(args, kw, answer)
    \/ \E name \in ImageNames : CallGetImage(name)
    \/ \E name \in ContainerNames : CallGetContainer(name)
    \/ \E listed \in MainListed : CallGetContainers(listed)
    \/ \E self \in images, listed \in MainListed : CallImageContainers(self, listed)
    \/ \E self \in images, f \in {"", "tags:v*"}, reftags \in MainRefTags, text \in MainTexts :
           CallGetTags(self, f, reftags, text)
    \/ \E self \in images, stream \in MainStreams : CallPull(self, stream)
    \/ \E self \in images, stream \in MainStreams : CallPush(self, stream)
    \/ \E self \in images, detach \in BOOLEAN, update \in BOOLEAN,
          kwargs \in {{"tty=True"}}, stream \in MainStreams, started \in ContainerNames :
           CallRun(self, detach, update, kwargs, stream, started)
    \/ \E self \in images, new_tag \in ImageNames, pulled \in MainStreams,
          pushed \in MainStreams :
           CallTag(self, new_tag, pulled, pushed)
    \/ \E self \in containers : CallStop(self)

Spec == Init /\ [][Next]_vars

----------------------------------------------------------------------------
(* Image.manage over every log stream, Image.get_tags over every JSON text *)

\* Every log stream of at most MaxStream tokens that keeps the log-record contract.
LogStreams ==
    {s \in UNION {[1..n -> StreamTokens] : n \in 0..MaxStream} : IsLogStream(s)}

\* Every JSON array of records of at most MaxJson tokens.
JsonTexts ==
    {t \in UNION {[1..n -> JsonTokens] : n \in 0..MaxJson} : IsJsonArray(t)}

\* A caller that has constructed a Cloud (login by default) and got one Image.
InitHandle ==
    \E ctype \in CloudTypeSet : \E auth \in Auths(ctype) :
        LET r == Cloud_init(ctype, auth, TRUE, 0)
            i == get_image(r.cloud, "app", r.n)
        IN /\ cloud = r.cloud
           /\ images = {i.h}
           /\ containers = {}
           /\ nclient = i.n
           /\ last = NoOp
           /\ NoBuild

\* manage changes nothing of the Cloud or the Image: one call from each starting
\* state covers every call.
NextManage ==
    /\ last = NoOp
    /\ \E self \in images, action \in {"pull", "push"}, stream \in LogStreams :
           CallManage(self, action, stream)

SpecManage == InitHandle /\ [][NextManage]_vars

\* Every stream of at most MaxStream tokens, lines of blanks included.
RawStreams == UNION {[1..n -> StreamTokens] : n \in 0..MaxStream}

NextManageRaw ==
    /\ last = NoOp
    /\ \E self \in images, action \in {"pull", "push"}, stream \in RawStreams :
           CallManage(self, action, stream)

SpecManageRaw == InitHandle /\ [][NextManageRaw]_vars

\* get_tags changes nothing either.
NextTags ==
    /\ last = NoOp
    /\ \E self \in images, f \in {"", "tags:v*"}, reftags \in MainRefTags, text \in JsonTexts :
           CallGetTags(self, f, reftags, text)

SpecTags == InitHandle /\ [][NextTags]_vars

----------------------------------------------------------------------------
(* Build/build.py: builder() *)

\* Directories the caller has pushed before it calls builder().
MaxDirs == 1

\* get_build_info(args): build_num and release, or their defaults when args
\* has no such attribute. A release is the sequence of its dot-separated parts.
get_build_info(a) ==
    [build_num |-> IF a.given THEN a.build_num ELSE "0",
     release |-> IF a.given THEN a.release ELSE <<"0", "0", "0">>]

\* What builder() is called with: the arguments of devbuild (none) or of ci_build.
BuildArgs ==
    {[given |-> FALSE, build_num |-> "", release |-> <<>>]}
    \cup {[given |-> TRUE, build_num |-> "7", release |-> r] :
               r \in {<<"1", "2", "3">>, <<"1", "2">>}}

\* pushd(d): the directory stack and the working directory afterwards.
pushd(stack, dir, d) == [stack |-> <<dir>> \o stack, cwd |-> d]

\* popd(): the directory stack and the working directory afterwards; on an
\* empty stack it returns 0 and changes nothing.
popd(stack, dir) ==
    IF stack = <<>> THEN [stack |-> stack, cwd |-> dir]
    ELSE [stack |-> Tail(stack), cwd |-> Head(stack)]

\* remake_dir(dir_path, info_str): the outcome and the directory afterwards.
\* failat names the call that raises, "" for none.
remake_dir(dir, failat) ==
    IF dir # Missing /\ failat = "rmpath" THEN [out |-> Exc("OSError"), dir |-> dir]
    ELSE IF failat = "mkdir" THEN [out |-> Exc("OSError"), dir |-> Missing]
    ELSE [out |-> Ret, dir |-> "empty"]

\* update_version_file(build_vars, reset): the outcome and the two files
\* afterwards. failat names the call that raises for a reason of its own, ""
\* for none; partial tells whether the file it was writing is left half written.
update_version_file(vf, fo, reset, failat, partial) ==
    IF reset THEN
        IF fo = Missing
        THEN [out |-> Exc("FileNotFoundError"), VERSION_FILE |-> Missing, file_orig |-> fo]
        ELSE [out |-> Ret, VERSION_FILE |-> fo, file_orig |-> Missing]
    ELSE IF vf = Missing
    THEN [out |-> Exc("FileNotFoundError"), VERSION_FILE |-> vf, file_orig |-> fo]
    ELSE IF failat = "chmod"
    THEN [out |-> Exc("OSError"), VERSION_FILE |-> vf, file_orig |-> fo]
    ELSE IF failat = "copyfile"
    THEN [out |-> Exc("OSError"), VERSION_FILE |-> vf,
          file_orig |-> IF partial THEN "partial" ELSE fo]
    ELSE IF failat = "file_expander"
    THEN [out |-> Exc("OSError"), VERSION_FILE |-> IF partial THEN "partial" ELSE vf,
          file_orig |-> vf]
    ELSE IF failat = "spew"
    THEN [out |-> Exc("OSError"), VERSION_FILE |-> IF partial THEN "partial" ELSE "expanded",
          file_orig |-> vf]
    ELSE [out |-> Ret, VERSION_FILE |-> "stamped", file_orig |-> vf]

\* builder(args), lines 83-93: the build variables; release_list[2] raises
\* IndexError on a release of fewer than three parts.
Builder(a) ==
    LET info == get_build_info(a) IN
    /\ pc = "idle"
    /\ build_args' = a
    /\ IF Len(info.release) < 3
       THEN raised' = Exc("IndexError") /\ pc' = "done"
       ELSE raised' = Ret /\ pc' = "pushd"
    /\ UNCHANGED <<cwd, dirstack, dircalls, VERSION_FILE, file_orig, ARTIFACTS_DIR>>
    /\ UNCHANGED session

\* line 96: pushd(PROJECT_ROOT)
Pushd ==
    LET r == pushd(dirstack, cwd, "PROJECT_ROOT") IN
    /\ pc = "pushd"
    /\ dirstack' = r.stack /\ cwd' = r.cwd
    /\ dircalls' = Append(dircalls, "pushd")
    /\ pc' = "remake_dir"
    /\ UNCHANGED <<build_args, VERSION_FILE, file_orig, ARTIFACTS_DIR, raised>>
    /\ UNCHANGED session

\* line 97: remake_dir(ARTIFACTS_DIR, 'artifacts'), before the try statement:
\* what it raises leaves builder() at once.
RemakeDir(failat) ==
    LET r == remake_dir(ARTIFACTS_DIR, failat) IN
    /\ pc = "remake_dir"
    /\ ARTIFACTS_DIR' = r.dir
    /\ IF r.out = Ret THEN pc' = "update_version_file" /\ UNCHANGED raised
       ELSE pc' = "done" /\ raised' = r.out
    /\ UNCHANGED <<build_args, cwd, dirstack, dircalls, VERSION_FILE, file_orig>>
    /\ UNCHANGED session

\* line 99: update_version_file(build_vars), the first statement of the try.
UpdateVersionFile(failat, partial) ==
    LET r == update_version_file(VERSION_FILE, file_orig, FALSE, failat, partial) IN
    /\ pc = "update_version_file"
    /\ VERSION_FILE' = r.VERSION_FILE /\ file_orig' = r.file_orig
    /\ IF r.out = Ret THEN pc' = "import_module" /\ UNCHANGED raised
       ELSE pc' = "popd" /\ raised' = r.out
    /\ UNCHANGED <<build_args, cwd, dirstack, dircalls, ARTIFACTS_DIR>>
    /\ UNCHANGED session

\* lines 100-101: import_module('batcave') and reload(batcave_module).
ImportModule(fails) ==
    /\ pc = "import_module"
    /\ IF fails THEN pc' = "popd" /\ raised' = Exc("ImportError")
       ELSE pc' = "run_setup" /\ UNCHANGED raised
    /\ UNCHANGED <<build_args, cwd, dirstack, dircalls, VERSION_FILE, file_orig, ARTIFACTS_DIR>>
    /\ UNCHANGED session

\* line 102: run_setup('setup.py', ...).run_commands(), the last statement of the try.
RunSetup(fails) ==
    /\ pc = "run_setup"
    /\ IF fails THEN raised' = Exc("DistutilsError") /\ UNCHANGED ARTIFACTS_DIR
       ELSE ARTIFACTS_DIR' = "built" /\ UNCHANGED raised
    /\ pc' = "popd"
    /\ UNCHANGED <<build_args, cwd, dirstack, dircalls, VERSION_FILE, file_orig>>
    /\ UNCHANGED session

\* line 104: popd(), the first statement of the finally.
Popd ==
    LET r == popd(dirstack, cwd) IN
    /\ pc = "popd"
    /\ dirstack' = r.stack /\ cwd' = r.cwd
    /\ dircalls' = Append(dircalls, "popd")
    /\ pc' = "reset"
    /\ UNCHANGED <<build_args, VERSION_FILE, file_orig, ARTIFACTS_DIR, raised>>
    /\ UNCHANGED session

\* line 105: update_version_file(reset=True), the last statement of the finally;
\* what it raises replaces the exception in flight.
ResetVersionFile ==
    LET r == update_version_file(VERSION_FILE, file_orig, TRUE, "", FALSE) IN
    /\ pc = "reset"
    /\ VERSION_FILE' = r.VERSION_FILE /\ file_orig' = r.file_orig
    /\ raised' = IF r.out = Ret THEN raised ELSE r.out
    /\ pc' = "done"
    /\ UNCHANGED <<build_args, cwd, dirstack, dircalls, ARTIFACTS_DIR>>
    /\ UNCHANGED session

\* A process about to call builder(): what it has pushed, what an earlier build
\* left in Build/artifacts.
InitBuild ==
    /\ cloud = NoCloud /\ images = {} /\ containers = {} /\ nclient = 0 /\ last = NoOp
    /\ pc = "idle"
    /\ build_args = [given |-> FALSE, build_num |-> "", release |-> <<>>]
    /\ cwd = BUILD_DIR
    /\ dirstack \in UNION {[1..n -> {"home"}] : n \in 0..MaxDirs}
    /\ dircalls = <<>>
    /\ VERSION_FILE = "orig"
    /\ file_orig = Missing
    /\ ARTIFACTS_DIR \in {Missing, "built"}
    /\ raised = Ret

NextBuild ==
    \/ \E a \in BuildArgs : Builder(a)
    \/ Pushd
    \/ \E failat \in {"", "rmpath", "mkdir"} : RemakeDir(failat)
    \/ \E failat \in {"", "chmod", "copyfile", "file_expander", "spew"}, partial \in BOOLEAN :
           UpdateVersionFile(failat, partial)
    \/ \E fails \in BOOLEAN : ImportModule(fails)
    \/ \E fails \in BOOLEAN : RunSetup(fails)
    \/ Popd
    \/ ResetVersionFile

SpecBuild == InitBuild /\ [][NextBuild]_vars

----------------------------------------------------------------------------
(* Properties *)

IsInvalidOperation(out, ctype) ==
    out.k = "CloudError" /\ out.e = "INVALID_OPERATION" /\ out.ctype = ctype

\* The callee and positional arguments of each call of a trace.
Steps(calls) == [i \in 1..Len(calls) |-> <<calls[i].f, calls[i].args>>]

Count(seq, x) == Cardinality({i \in 1..Len(seq) : seq[i] = x})

\* C1: on a gcloud Cloud, listing containers (get_containers, Image.containers),
\* getting a container and Container.stop raise INVALID_OPERATION naming gcloud
\* and make no call to the docker client or to gcloud, after any sequence of
\* operations. No Container exists on a gcloud Cloud, so stop is stated on
\* every Container the caller could try it on.
C1_ContainersUnsupported ==
    /\ (last.ctype = "gcloud"
        /\ last.op \in {"get_containers", "Image.containers", "get_container", "stop"})
       => (IsInvalidOperation(last.out, "gcloud") /\ last.calls = <<>>)
    /\ cloud.type = "gcloud"
       => /\ containers = {}
          /\ \A name \in ContainerNames :
                LET r == stop(cloud, [name |-> name, ref |-> name])
                IN IsInvalidOperation(r.out, "gcloud") /\ r.calls = <<>>

C1_Witness ==
    /\ last.op = "Image.containers"
    /\ last.ctype = "gcloud"
    /\ cloud._client = ClientTrue
    /\ IsInvalidOperation(last.out, "gcloud")

\* C2: Image.run on a gcloud Cloud raises INVALID_OPERATION and makes no call
\* before it, whatever detach and update are.
C2_RunRaisesFirst ==
    (last.op = "run" /\ last.ctype = "gcloud")
    => (IsInvalidOperation(last.out, "gcloud") /\ last.calls = <<>>)

\* C3: Cloud(ctype) with a ctype outside local, dockerhub, gcloud raises
\* INVALID_TYPE listing exactly those three, with or without login, and makes
\* no call: no DockerClient is constructed, gcloud is not run.
C3_InvalidType ==
    (last.op = "Cloud" /\ last.ctype \notin {"local", "dockerhub", "gcloud"})
    => /\ last.out.k = "CloudError"
       /\ last.out.e = "INVALID_TYPE"
       /\ Len(last.out.kinds) = 3
       /\ {last.out.kinds[i] : i \in 1..3} = {"local", "dockerhub", "gcloud"}
       /\ last.calls = <<>>

C3_Witness ==
    /\ last.op = "Cloud"
    /\ last.ctype = "aws"
    /\ "login" \in last.flags
    /\ last.out.e = "INVALID_TYPE"
    /\ cloud.type = "gcloud"

RECURSIVE ErrorText(_)
\* The error values of the records that have one, one after the other.
ErrorText(recs) ==
    IF recs = <<>> THEN <<>>
    ELSE (IF "error" \in DOMAIN Head(recs) THEN Head(recs)["error"] ELSE <<>>)
         \o ErrorText(Tail(recs))

\* C4: manage(action) raises IMAGE_ERROR with the action and the error values of
\* all records that have one, concatenated in log order, when some record has
\* one; otherwise it returns the records of the non-empty lines, in log order.
C4_Manage ==
    last.op = "manage"
    => LET lines == SelectSeq(split(last.stream), LAMBDA l : l # <<>>)
           recs == [i \in 1..Len(lines) |-> literal_eval(strip(lines[i]))]
       IN IF \E i \in 1..Len(recs) : "error" \in DOMAIN recs[i]
          THEN /\ last.out.k = "CloudError"
               /\ last.out.e = "IMAGE_ERROR"
               /\ last.out.action = last.args[1]
               /\ last.out.err = ErrorText(recs)
          ELSE /\ last.out.k = "ret"
               /\ last.log = recs

C4_Witness ==
    /\ last.op = "manage"
    /\ last.stream = <<KV("error", <<"y", "z">>), NL, KV("status", <<"x">>), NL,
                       KV("error", <<"x">>)>>
    /\ last.out.e = "IMAGE_ERROR"
    /\ last.out.err = <<"y", "z", "x">>

\* C5: get_tags on a gcloud Cloud returns the tags of all records in ascending
\* order: no tag before a smaller one, and each tag as many times as the
\* records list it.
C5_SortedTags ==
    (last.op = "get_tags" /\ last.ctype = "gcloud")
    => /\ last.out.k = "ret"
       /\ \A i, j \in 1..Len(last.tags) : i < j => ~StrLess(last.tags[j], last.tags[i])
       /\ \A t \in Tags : Count(last.tags, t) = Count(last.text, TAG(t))
       /\ \A i \in 1..Len(last.tags) : last.tags[i] \in Tags

C5_Witness ==
    /\ last.op = "get_tags"
    /\ last.ctype = "gcloud"
    /\ last.text = <<REC, TAG(<<2>>), REC, TAG(<<1, 2>>), TAG(<<2>>)>>
    /\ last.tags = << <<1, 2>>, <<2>>, <<2>> >>

\* C6: tag(new_tag) on a local or dockerhub Cloud pulls the image, tags its
\* reference, constructs the Image of new_tag and pushes that one, in this
\* order and once each, stopping at the pull or at the push when its log
\* reports an error; when it returns, it returns the Image named new_tag and
\* the Image it was called on keeps its name.
C6_TagNative ==
    (last.op = "tag" /\ last.ctype \in {"local", "dockerhub"})
    => LET new_tag == last.args[1]
           steps == << <<"images.pull", <<last.self>>>>,
                       <<"ref.tag", <<last.self, new_tag>>>>,
                       <<"images.get", <<new_tag>>>>,
                       <<"images.push", <<new_tag>>>> >>
           done == Steps(last.calls)
       IN /\ Len(done) <= 4
          /\ done = SubSeq(steps, 1, Len(done))
          /\ last.out.k = "ret"
             => /\ done = steps
                /\ last.h.name = new_tag
                /\ \E h \in images : h.name = last.self
          /\ last.out.k # "ret"
             => /\ last.out.e = "IMAGE_ERROR"
                /\ \/ last.out.action = "pull" /\ Len(done) = 1
                   \/ last.out.action = "push" /\ Len(done) = 4

C6_Witness ==
    /\ last.op = "tag"
    /\ last.ctype = "dockerhub"
    /\ last.out.k = "ret"
    /\ last.self = "app"
    /\ last.h.name = "app:v2"
    /\ Len(last.calls) = 4

\* C7: tag(new_tag) on a gcloud Cloud runs gcloud once, container images add-tag
\* with the name and new_tag and ignore_stderr, calls no image action of the
\* docker client, and returns an Image named new_tag whose _ref is None.
C7_TagGcloud ==
    (last.op = "tag" /\ last.ctype = "gcloud")
    => /\ SelectSeq(last.calls, LAMBDA x : x.f = "gcloud")
          = <<Call("gcloud", 0,
                   <<"container", "images", "add-tag", last.self, last.args[1]>>,
                   <<>>, {"ignore_stderr"})>>
       /\ \A i \in 1..Len(last.calls) : last.calls[i].f \in {"gcloud", "DockerClient"}
       /\ last.out.k = "ret"
       /\ last.h.name = last.args[1]
       /\ last.h.ref = ""

C7_Witness ==
    /\ last.op = "tag"
    /\ last.ctype = "gcloud"
    /\ last.self = "app"
    /\ last.h = [name |-> "app:v2", dc |-> 2, ref |-> ""]

\* C8: login() on a gcloud Cloud whose auth is a str runs gcloud twice, auth
\* activate-service-account with the key file ~/.ssh/<auth>.json and then auth
\* configure-docker, both with ignore_stderr, and calls no docker client.
C8_LoginKeyFile ==
    (last.op = "login" /\ last.ctype = "gcloud" /\ cloud.auth.t = "str")
    => last.calls =
          <<Call("gcloud", 0, <<"auth", "activate-service-account", "--key-file", "~/.ssh/">>,
                 cloud.auth.s \o <<".json">>, {"ignore_stderr"}),
            Call("gcloud", 0, <<"auth", "configure-docker">>, <<>>, {"ignore_stderr"})>>

\* C9 as claimed: pull and push on a gcloud Cloud raise INVALID_OPERATION and
\* never call the docker client's image action.
C9_PullPushUnsupported ==
    (last.op \in {"pull", "push"} /\ last.ctype = "gcloud")
    => (IsInvalidOperation(last.out, "gcloud") /\ last.calls = <<>>)

\* C9 as amended: pull and push on a gcloud Cloud call the image action of that
\* name once, for the Image's name, on the Image's own DockerClient, and then
\* return the log or raise IMAGE_ERROR for that action; they never raise
\* INVALID_OPERATION.
C9_PullPushGcloud ==
    (last.op \in {"pull", "push"} /\ last.ctype = "gcloud")
    => /\ Steps(last.calls) = << <<"images." \o last.op, <<last.self>>>> >>
       /\ \E h \in images : h.name = last.self /\ h.dc = last.calls[1].cid
       /\ cloud._client.k # "DockerClient"
       /\ \/ last.out.k = "ret"
          \/ /\ last.out.k = "CloudError"
             /\ last.out.e = "IMAGE_ERROR"
             /\ last.out.action = last.op

C9_Witness ==
    /\ last.op = "push"
    /\ last.ctype = "gcloud"
    /\ last.out.e = "IMAGE_ERROR"
    /\ Len(last.calls) = 1

\* C10: exec(*args, **kwargs) on a gcloud Cloud runs gcloud once with those
\* arguments and returns what it returns; on a local or dockerhub Cloud it
\* raises INVALID_OPERATION naming the type and does not run gcloud.
C10_Exec ==
    last.op = "exec"
    => IF last.ctype = "gcloud"
       THEN /\ last.calls = <<Call("gcloud", 0, last.args, <<>>, last.flags)>>
            /\ last.out.k = "ret"
            /\ last.val = last.text
       ELSE /\ last.ctype \in {"local", "dockerhub"}
            /\ IsInvalidOperation(last.out, last.ctype)
            /\ last.calls = <<>>

C10_Witness ==
    /\ last.op = "exec"
    /\ last.ctype = "gcloud"
    /\ last.flags = {"ignore_stderr"}
    /\ Len(last.calls) = 1
    /\ last.val # <<>>

\* C11: Cloud.__enter__ returns the Cloud it was called on; Cloud.__exit__, from
\* every state of the Cloud and with or without an exception in flight, returns
\* normally, makes no call to a collaborator, returns a false value (the
\* exception in flight propagates) and leaves type, auth and _client as they were.
C11_EnterExit ==
    [][/\ last'.op = "__enter__" =>
            /\ last'.out = Ret /\ last'.calls = <<>>
            /\ last'.entered = cloud /\ cloud' = cloud
       /\ last'.op = "__exit__" =>
            /\ last'.out = Ret /\ last'.calls = <<>>
            /\ last'.swallow = FALSE /\ cloud' = cloud]_vars

\* An __exit__ with an exception in flight on a Cloud that holds a DockerClient.
C11_Witness ==
    /\ last.op = "__exit__" /\ "exc_info" \in last.flags
    /\ cloud._client.k = "DockerClient"

\* C12: on a local or dockerhub Cloud that holds a DockerClient, no operation on
\* that Cloud or on its handles (a further login() included) replaces the
\* DockerClient, and every Image the caller holds uses that DockerClient.
C12_ClientKept ==
    [][(/\ cloud.type \in {"local", "dockerhub"}
        /\ cloud._client.k = "DockerClient"
        /\ last'.op # "Cloud")
       => /\ cloud'._client = cloud._client
          /\ \A h \in images' : h.dc = cloud'._client.id]_vars

\* The operations invoked on an Image.
ImageOps == {"get_tags", "pull", "push", "manage", "run", "tag", "Image.containers"}

\* C13: an operation invoked on an Image (get_tags, pull, push, manage, run, tag,
\* containers), whether it returns or raises, leaves that Image as it was (its
\* name, its native client and its reference), leaves it in the caller's hands
\* and leaves the Cloud it belongs to as it was; tag hands back an Image that was
\* constructed by the call.
C13_ImageFrame ==
    [][last'.op \in ImageOps =>
          /\ last'.obj \in images /\ last'.obj \in images'
          /\ last'.after = last'.obj
          /\ cloud' = cloud
          /\ (last'.op = "tag" /\ last'.out = Ret) =>
                /\ last'.h.name = last'.args[1]
                /\ cloud.type \in {"local", "dockerhub"} =>
                      Count(Steps(last'.calls), <<"images.get", last'.args>>) = 1]_vars

\* A tag to another name that returned, with the Image it was invoked on still held.
C13_Witness ==
    /\ last.op = "tag" /\ last.obj.name = "app" /\ last.args = <<"app:v2">>
    /\ last.out = Ret /\ last.h.name = "app:v2" /\ last.obj \in images

\* The calls of one login() on a Cloud of each type, as <<callee, arguments>>.
OneLogin(ctype, auth) ==
    CASE ctype = "local" -> << <<"DockerClient", <<>> >> >>
      [] ctype = "dockerhub" -> << <<"DockerClient", <<>> >>, <<"client.login", auth.tup>> >>
      [] ctype = "gcloud" ->
            << <<"gcloud", <<"auth", "activate-service-account", "--key-file", "~/.ssh/">> >>,
               <<"gcloud", <<"auth", "configure-docker">> >> >>
      [] OTHER -> <<>>

\* C14: Cloud(ctype, auth, login=True) makes the calls of exactly one login(), and
\* none when the type is not a cloud type (the type is validated first);
\* Cloud(ctype, auth, login=False) makes no call and leaves _client None, and
\* _client stays None under every operation but login().
C14_LoginTiming ==
    [][/\ (last'.op = "Cloud" /\ "login" \in last'.flags) =>
            IF last'.ctype \in CloudTypeSet
            THEN /\ last'.out = Ret
                 /\ Steps(last'.calls) = OneLogin(cloud'.type, cloud'.auth)
                 /\ cloud'._client # ClientNone
            ELSE last'.out.k = "CloudError" /\ last'.calls = <<>> /\ cloud' = cloud
       /\ (last'.op = "Cloud" /\ "login" \notin last'.flags) =>
            /\ last'.calls = <<>>
            /\ last'.ctype \in CloudTypeSet =>
                   last'.out = Ret /\ cloud'.type = last'.ctype /\ cloud'._client = ClientNone
       /\ (cloud # NoCloud /\ cloud._client = ClientNone /\ last'.op \notin {"Cloud", "login"})
            => cloud'._client = ClientNone]_vars

\* An operation other than login() invoked on a Cloud constructed with login=False.
C14_Witness ==
    /\ cloud.type = "dockerhub" /\ cloud._client = ClientNone
    /\ last.op = "get_image" /\ last.out.k = "exc"

\* A Cloud constructed with login=True.
C14_WitnessLogin ==
    /\ last.op = "Cloud" /\ "login" \in last.flags /\ last.ctype = "dockerhub"
    /\ Len(last.calls) = 2

\* The lines of a stream that manage evaluates.
Evaluated(stream) == SelectSeq(split(stream), LAMBDA l : l # <<>>)

HasError(line) == \E j \in 1..Len(line) : line[j].t = "kv" /\ line[j].key = "error"

IsBlank(line) == \A j \in 1..Len(line) : line[j].t = "ws"

\* C15: manage(action) calls the docker client's image action exactly once,
\* whatever the log says, and decides on the whole log: a line of blanks makes it
\* raise SyntaxError even when a line before it holds an error record, and
\* IMAGE_ERROR carries the error values of all error lines, the ones after the
\* first included.
C15_ManageWholeLog ==
    last.op = "manage"
    => LET lines == Evaluated(last.stream)
           blanks == {i \in 1..Len(lines) : IsBlank(lines[i])}
           errors == {i \in 1..Len(lines) : HasError(lines[i])}
       IN /\ Len(last.calls) = 1
          /\ last.calls[1].f = "images." \o last.args[1]
          /\ last.calls[1].args = <<last.self>>
          /\ blanks # {} => last.out = Exc("SyntaxError")
          /\ (blanks = {} /\ errors # {}) =>
                /\ last.out.k = "CloudError" /\ last.out.e = "IMAGE_ERROR"
                /\ last.out.err = ErrorText([i \in 1..Len(lines) |-> literal_eval(lines[i])])
          /\ (blanks = {} /\ errors = {}) =>
                last.out = Ret /\ Len(last.log) = Len(lines)

\* An error record on the first line, a line of blanks after it.
C15_Witness ==
    /\ last.op = "manage"
    /\ last.stream = <<KV("error", <<"x">>), NL, KV("status", <<"x">>), NL, WS>>
    /\ last.out = Exc("SyntaxError")
    /\ Len(last.calls) = 1

\* C16: login() on a local Cloud constructs a DockerClient, keeps it as _client
\* and calls nothing else; on a dockerhub Cloud it constructs a DockerClient,
\* keeps it as _client and then calls login once on that new object with the
\* elements of auth as arguments; the gcloud runner is called in neither case.
C16_LoginNative ==
    (last.op = "login" /\ last.ctype \in {"local", "dockerhub"})
    => /\ last.out = Ret
       /\ last.calls[1] = Call("DockerClient", nclient, <<>>, <<>>, {})
       /\ cloud._client = DockerClient(nclient)
       /\ last.ctype = "local" => Len(last.calls) = 1
       /\ last.ctype = "dockerhub" =>
             /\ Len(last.calls) = 2
             /\ last.calls[2] = Call("client.login", nclient, cloud.auth.tup, <<>>, {})
             /\ cloud.auth.tup = <<"user", "pw">>
       /\ \A i \in 1..Len(last.calls) : last.calls[i].f # "gcloud"

\* A login() on a dockerhub Cloud that was constructed with login=False.
C16_Witness ==
    /\ last.op = "login" /\ last.ctype = "dockerhub"
    /\ nclient = 1 /\ Len(last.calls) = 2

\* C17: run on a local or dockerhub Cloud. With update set it pulls the image
\* once, first, and when the pull raises IMAGE_ERROR it raises that and starts
\* no container; with update not set it pulls nothing. When it returns it has
\* called containers.run once, last, on the Cloud's client, with the name of the
\* Image, the detach flag and the options given, and it returns what that call
\* returned.
C17_Run ==
    (last.op = "run" /\ last.ctype \in {"local", "dockerhub"})
    => LET steps == Steps(last.calls)
           pulls == Count(steps, <<"images.pull", <<last.self>> >>)
           starts == Count(steps, <<"containers.run", <<last.self>> >>)
           failed == \E i \in 1..Len(last.stream) : last.stream[i].key = "error"
       IN /\ "update" \in last.flags =>
                /\ pulls = 1 /\ steps[1][1] = "images.pull"
                /\ failed => /\ last.out.k = "CloudError" /\ last.out.e = "IMAGE_ERROR"
                             /\ last.out.action = "pull"
                             /\ starts = 0 /\ last.ctr = ""
                /\ ~failed => last.out = Ret
          /\ "update" \notin last.flags => pulls = 0 /\ last.out = Ret
          /\ last.out = Ret =>
                /\ starts = 1
                /\ last.calls[Len(last.calls)] =
                       Call("containers.run", cloud._client.id, <<last.self>>, <<>>,
                            {IF "detach" \in last.flags THEN "detach=True" ELSE "detach=False"}
                            \cup (last.flags \ {"detach", "update"}))
                /\ last.ctr = last.answer /\ last.ctr \in ContainerNames

\* A run with update set whose pull log reports an error.
C17_Witness ==
    /\ last.op = "run" /\ last.ctype = "dockerhub" /\ "update" \in last.flags
    /\ last.out.e = "IMAGE_ERROR" /\ Len(last.calls) = 1

\* C18: tag(new_tag) on a local or dockerhub Cloud: when the pull raises
\* IMAGE_ERROR nothing else is called (the reference is not tagged, no Image is
\* constructed, nothing is pushed), and whenever tag raises a CloudError the
\* reference has not been tagged with new_tag.
C18_TagAllOrNothing ==
    (last.op = "tag" /\ last.ctype \in {"local", "dockerhub"})
    => LET steps == Steps(last.calls)
           tagged == \E i \in 1..Len(steps) :
                         steps[i][1] = "ref.tag" /\ steps[i][2][2] = last.args[1]
           pullfailed == \E i \in 1..Len(last.stream) : last.stream[i].key = "error"
       IN /\ pullfailed =>
                /\ last.out.k = "CloudError" /\ last.out.e = "IMAGE_ERROR"
                /\ steps = << <<"images.pull", <<last.self>> >> >>
                /\ last.h = NoHandle
          /\ last.out.k = "CloudError" => ~tagged

\* C19: when builder() is left after its pushd, by a return or by an exception,
\* it has made exactly one popd, the process is back in the directory it was
\* called in, and batcave/__init__.py exists with its original content.
C19_BuilderRestores ==
    (pc = "done" /\ dircalls # <<>>)
    => /\ dircalls = <<"pushd", "popd">>
       /\ cwd = BUILD_DIR
       /\ VERSION_FILE = "orig"

====
